---------------------------- MODULE Spec2Model ----------------------------
(***************************************************************************)
(* NeoVintageous: the plugin bootstrap (plugin.py), the :set scanner       *)
(* (lib/ex/parser/scanner_command_set.py) and the gk motion exercised by   *)
(* tests/functional/test_gk.py.                                            *)
(*                                                                         *)
(* Four specifications share the module:                                   *)
(*   Spec        plugin.py: module import, plugin_loaded, plugin_unloaded  *)
(*   SpecIgnored plugin.py: _update_ignored_packages over bounded lists    *)
(*   SpecSet     scan_command_set over bounded command lines               *)
(*   SpecGk      gk / l_gk over bounded word-wrapped buffers               *)
(***************************************************************************)
EXTENDS Integers, Sequences, FiniteSets, TLC

VARIABLES
    \* ---- plugin.py ----
    pc,             \* position in the plugin life cycle
    _EXCEPTION,     \* module global _EXCEPTION (line 15 / 46)
    init_state,     \* whether the name init_state was bound by line 17
    pc_event,       \* local pc_event of plugin_loaded
    events,         \* what Package Control answered to plugin_loaded
    _exception,     \* local _exception of plugin_loaded
    ignored,        \* Preferences.sublime-settings: 'ignored_packages'
    saved,          \* number of sublime.save_settings calls
    written,        \* values passed to settings.set('ignored_packages', ..)
    views,          \* settings of every view of every window
    raised,         \* stages in which an exception was raised
    tracebacks,     \* stages whose handler called traceback.print_exc()
    escaped,        \* exception that left plugin_loaded ("None" if none)
    dialogs,        \* messages passed to sublime.message_dialog
    ignored0,       \* 'ignored_packages' before the latest call that read it
    \* ---- scan_command_set ----
    scan_pc,        \* position in scan_command_set
    source,         \* state.source from state.position on, when called
    position,       \* state.position, relative to the position when called
    start,          \* state.start, likewise
    scanned,        \* the value returned: <<left, tokens>>, or the error raised
    \* ---- gk (tests/functional/test_gk.py) ----
    mode,           \* "normal" or "visual_line"
    buffer,         \* the view's text
    sel,            \* the selection <<a, b>>; the cursor is <<pt, pt>>
    before,         \* buffer and selection before the latest key press
    pressed         \* whether gk was pressed

pluginVars == <<pc, _EXCEPTION, init_state, pc_event, events, _exception, ignored,
                saved, written, views, raised, tracebacks, escaped, dialogs, ignored0>>

scanVars == <<scan_pc, source, position, start, scanned>>

gkVars == <<mode, buffer, sel, before, pressed>>

vars == <<pluginVars, scanVars, gkVars>>

(***************************************************************************)
(* Bounds                                                                  *)
(***************************************************************************)
MaxWindows == 2
MaxIgnored == 3
MaxSource == 4
MaxBuffer == 7

\* The parts of the state a specification does not use stay as they are here.
IdleScan ==
    /\ scan_pc = "idle"
    /\ source = <<>>
    /\ position = 0
    /\ start = 0
    /\ scanned = <<>>

IdleGk ==
    /\ mode = "normal"
    /\ buffer = <<>>
    /\ sel = <<0, 0>>
    /\ before = [buffer |-> <<>>, sel |-> <<0, 0>>]
    /\ pressed = FALSE

IdlePlugin ==
    /\ pc = "idle"
    /\ _EXCEPTION = "None"
    /\ init_state = TRUE
    /\ pc_event = "None"
    /\ events = [imp |-> "uncalled", install |-> "uncalled", post_upgrade |-> "uncalled"]
    /\ _exception = "None"
    /\ ignored = <<>>
    /\ saved = 0
    /\ written = <<>>
    /\ views = [v \in {} |-> FALSE]
    /\ raised = {}
    /\ tracebacks = {}
    /\ escaped = "None"
    /\ dialogs = <<>>
    /\ ignored0 = <<>>

(***************************************************************************)
(* Exceptions.  "None" is Python's None; "ImportError" is an ImportError   *)
(* (or subclass) instance; "Exception" is any other Exception instance.   *)
(***************************************************************************)
None == "None"
Exceptions == {"ImportError", "Exception"}

isinstance_ImportError(e) == e = "ImportError"

(***************************************************************************)
(* Host: windows and views.  Odd windows hold one view, even windows two.  *)
(***************************************************************************)
Windows == 1..MaxWindows
ViewsOf(w) == 1..(2 - (w % 2))
Views == UNION {{<<w, i>> : i \in ViewsOf(w)} : w \in Windows}

\* Position of a view in the iteration order of the nested loops
\* `for window in sublime.windows(): for view in window.views()`.
ViewIndex(v) == Cardinality({u \in Views : u[1] < v[1] \/ (u[1] = v[1] /\ u[2] <= v[2])})

CleanSettings == [command_mode |-> FALSE, inverse_caret_state |-> FALSE, vintage |-> FALSE]
SettingsValues == [command_mode : BOOLEAN, inverse_caret_state : BOOLEAN, vintage : BOOLEAN]

\* Settings a view can be left with by an earlier session.
StartSettings ==
    { CleanSettings,
      [command_mode |-> TRUE, inverse_caret_state |-> TRUE, vintage |-> FALSE],
      [command_mode |-> TRUE, inverse_caret_state |-> FALSE, vintage |-> TRUE] }

TotalCalls == 3 * Cardinality(Views)

\* active_view() returning None (the active sheet is an image, line 110-115).
NoView == <<0, 0>>

(***************************************************************************)
(* _update_ignored_packages (plugin.py 51-64)                              *)
(***************************************************************************)
\* Package names that occur in the model, and Python's str ordering on them
\* (code point order: 'Emmet' < 'Six' < 'Vintage' < 'Vintageous' < 'Zen').
PackageNames == {"Emmet", "Six", "Vintage", "Vintageous", "Zen"}
StrRank == [n \in PackageNames |->
              CASE n = "Emmet" -> 1 [] n = "Six" -> 2 [] n = "Vintage" -> 3
                [] n = "Vintageous" -> 4 [] n = "Zen" -> 5]
StrLess(a, b) == StrRank[a] < StrRank[b]

\* The literal list ['Six', 'Vintage', 'Vintageous'] of line 59.
ConflictCandidates == <<"Six", "Vintage", "Vintageous">>

\* `x in lst` for a Python list.
InList(x, lst) == \E i \in 1..Len(lst) : lst[i] = x

\* [x for x in cand if x not in lst]
RECURSIVE NotIn(_, _)
NotIn(cand, lst) ==
    IF cand = <<>> THEN <<>>
    ELSE (IF InList(Head(cand), lst) THEN <<>> ELSE <<Head(cand)>>) \o NotIn(Tail(cand), lst)

\* Python's sorted() on a list of str, as an insertion sort.
RECURSIVE InsertSorted(_, _)
InsertSorted(x, lst) ==
    IF lst = <<>> THEN <<x>>
    ELSE IF StrLess(x, Head(lst)) THEN <<x>> \o lst
    ELSE <<Head(lst)>> \o InsertSorted(x, Tail(lst))

RECURSIVE sorted(_)
sorted(lst) == IF lst = <<>> THEN <<>> ELSE InsertSorted(Head(lst), sorted(Tail(lst)))

\* Line 59.
conflict_packages(ignored_packages) == NotIn(ConflictCandidates, ignored_packages)

\* Variant: the concatenation is stored without sorting it.
NewIgnored_Unsorted(ignored_packages) ==
    ignored_packages \o conflict_packages(ignored_packages)

\* Line 62.
NewIgnored(ignored_packages) == sorted(ignored_packages \o conflict_packages(ignored_packages))

\* An explicit null stored under 'ignored_packages': settings.get returns
\* None.  Written as a one-element tuple, which is no list of package names.
NullPref == <<None>>

\* The whole function on the stored preference `pref`, which is a list of
\* package names or NullPref (for which `x not in ignored_packages` raises
\* TypeError).  A missing key reads as [] (the default of settings.get) and
\* is the empty list here.
\* Result: the exception raised (None if none), the preference afterwards,
\* whether settings.set was called and with what, whether save_settings was
\* called.
UpdateIgnoredPackages(pref) ==
    IF pref = NullPref
    THEN [exc |-> "Exception", pref |-> pref, set |-> FALSE, value |-> <<>>, save |-> FALSE]
    ELSE IF conflict_packages(pref) # <<>>
    THEN [exc |-> None, pref |-> NewIgnored(pref), set |-> TRUE,
          value |-> NewIgnored(pref), save |-> TRUE]
    ELSE [exc |-> None, pref |-> pref, set |-> FALSE, value |-> <<>>, save |-> FALSE]

(***************************************************************************)
(* _cleanup_views (plugin.py 67-79)                                        *)
(***************************************************************************)
\* Variant: the 'vintage' setting is never erased.
CleanupView_NoErase(s, done) ==
    [command_mode        |-> IF done >= 1 THEN FALSE ELSE s.command_mode,
     inverse_caret_state |-> IF done >= 2 THEN FALSE ELSE s.inverse_caret_state,
     vintage             |-> s.vintage]

\* The settings of one view after `done` of its three calls were made:
\* set('command_mode', False), set('inverse_caret_state', False),
\* erase('vintage').
CleanupView(s, done) ==
    [command_mode        |-> IF done >= 1 THEN FALSE ELSE s.command_mode,
     inverse_caret_state |-> IF done >= 2 THEN FALSE ELSE s.inverse_caret_state,
     vintage             |-> IF done >= 3 THEN FALSE ELSE s.vintage]

\* All views after the first k settings calls of the nested loops; k is
\* TotalCalls when no host call raises.
CleanupViews(vs, k) == [v \in Views |-> CleanupView(vs[v], k - 3 * (ViewIndex(v) - 1))]

(***************************************************************************)
(* plugin_loaded (plugin.py 82-148)                                        *)
(***************************************************************************)
\* Lines 87-92: pc_event and the exception raised, from the outcome of
\* `from package_control import events` (imp: "ok" or an exception) and of
\* events.install / events.post_upgrade ("True", "False" or an exception;
\* "uncalled" when an earlier statement of the try block raised).
Truth == {"True", "False"}
Uncalled == "uncalled"
PcAnswers ==
    { a \in [imp : {"ok"} \cup Exceptions,
             install : Truth \cup Exceptions \cup {Uncalled},
             post_upgrade : Truth \cup Exceptions \cup {Uncalled}] :
        /\ (a.install = Uncalled) <=> (a.imp # "ok")
        /\ (a.post_upgrade = Uncalled) <=> (a.install \notin Truth) }
PcEventTry(imp, inst, post) ==
    IF imp # "ok" THEN [pc_event |-> None, exc |-> imp]
    ELSE IF inst \in Exceptions THEN [pc_event |-> None, exc |-> inst]
    ELSE IF post \in Exceptions
         THEN [pc_event |-> IF inst = "True" THEN "install" ELSE None, exc |-> post]
    ELSE [pc_event |-> IF post = "True" THEN "post_upgrade"
                       ELSE IF inst = "True" THEN "install" ELSE None,
          exc |-> None]

\* Lines 93-97: what the except clauses do with exception e of the try block:
\* tb = traceback printed, esc = exception that is not caught.
PcEventExcept(e) ==
    IF e = None THEN [tb |-> FALSE, esc |-> None]
    ELSE IF isinstance_ImportError(e) THEN [tb |-> FALSE, esc |-> None]
    ELSE [tb |-> TRUE, esc |-> None]

\* Lines 101-103.
IgnoredExcept(e) ==
    IF e = None THEN [tb |-> FALSE, esc |-> None] ELSE [tb |-> TRUE, esc |-> None]

\* Lines 119-122: _exception = e, traceback printed.
StateExcept(e) ==
    IF e = None THEN [tb |-> FALSE, esc |-> None, _exception |-> None]
    ELSE [tb |-> TRUE, esc |-> None, _exception |-> e]

\* Lines 128-130.
CleanupExcept(e) ==
    IF e = None THEN [tb |-> FALSE, esc |-> None] ELSE [tb |-> TRUE, esc |-> None]

\* Variant: only the import-time exception is looked at.
ShouldReport_ModuleOnly(E, e) == E # None

\* Line 124: `if _EXCEPTION or _exception`.
ShouldReport(E, e) == E # None \/ e # None

\* Variant: the ImportError test looks at _EXCEPTION alone.
Message_ModuleOnly(E, e, ev) ==
    IF isinstance_ImportError(E)
    THEN IF ev = "post_upgrade"
         THEN <<"Failed to load some modules trying to upgrade NeoVintageous. ",
                "Please restart Sublime Text to finish the upgrade.">>
         ELSE <<"Failed to load some NeoVintageous modules. ",
                "Please restart Sublime Text.">>
    ELSE IF ev = "post_upgrade"
         THEN <<"An error occurred trying to upgrade NeoVintageous. ",
                "Please restart Sublime Text to finish the upgrade.">>
         ELSE <<"An error occurred trying to load NeoVintageous. ",
                "Please restart Sublime Text.">>

\* Lines 132-145.  A message is the pair of adjacent string literals the
\* source concatenates.
Message(E, e, ev) ==
    IF isinstance_ImportError(E) \/ isinstance_ImportError(e)
    THEN IF ev = "post_upgrade"
         THEN <<"Failed to load some modules trying to upgrade NeoVintageous. ",
                "Please restart Sublime Text to finish the upgrade.">>
         ELSE <<"Failed to load some NeoVintageous modules. ",
                "Please restart Sublime Text.">>
    ELSE IF ev = "post_upgrade"
         THEN <<"An error occurred trying to upgrade NeoVintageous. ",
                "Please restart Sublime Text to finish the upgrade.">>
         ELSE <<"An error occurred trying to load NeoVintageous. ",
                "Please restart Sublime Text.">>

\* Preference values the plugin is loaded with.
LoadPrefs ==
    { <<>>, <<"Zen", "Vintage">>, <<"Six", "Vintage", "Vintageous">>, NullPref }

Init ==
    /\ IdleScan
    /\ IdleGk
    /\ pc = "import"
    /\ _EXCEPTION = None
    /\ init_state = FALSE
    /\ pc_event = None
    /\ events = [imp |-> Uncalled, install |-> Uncalled, post_upgrade |-> Uncalled]
    /\ _exception = None
    /\ ignored \in LoadPrefs
    /\ saved = 0
    /\ written = <<>>
    /\ views \in [Views -> StartSettings]
    /\ raised = {}
    /\ tracebacks = {}
    /\ escaped = None
    /\ dialogs = <<>>
    /\ ignored0 = ignored

\* Lines 14-48: the module-level imports.  An exception e raised by the
\* import of line 17 leaves init_state unbound; one raised by a later import
\* leaves it bound.
Import ==
    /\ UNCHANGED <<scanVars, gkVars>>
    /\ pc = "import"
    /\ \E e \in {None} \cup Exceptions, bound \in BOOLEAN :
          /\ e = None => bound
          /\ _EXCEPTION' = e
          /\ init_state' = bound
          /\ raised' = IF e = None THEN raised ELSE raised \cup {"import"}
          /\ tracebacks' = IF e = None THEN tracebacks ELSE tracebacks \cup {"import"}
    /\ pc' = "pc_event"
    /\ UNCHANGED <<pc_event, events, _exception, ignored, saved, written, views, escaped, dialogs,
                   ignored0>>

\* Where plugin_loaded continues after a try statement whose handlers left
\* exception esc uncaught.
Continue(esc, next) == IF esc = None THEN next ELSE "done"

\* Lines 86-97.
PcEventQuery ==
    /\ UNCHANGED <<scanVars, gkVars>>
    /\ pc = "pc_event"
    /\ \E a \in PcAnswers :
          LET t == PcEventTry(a.imp, a.install, a.post_upgrade)
              h == PcEventExcept(t.exc)
          IN  /\ events' = a
              /\ pc_event' = t.pc_event
              /\ raised' = IF t.exc = None THEN raised ELSE raised \cup {"pc_event"}
              /\ tracebacks' = IF h.tb THEN tracebacks \cup {"pc_event"} ELSE tracebacks
              /\ escaped' = h.esc
              /\ pc' = Continue(h.esc, "ignored")
    /\ UNCHANGED <<_EXCEPTION, init_state, _exception, ignored, saved, written, views, dialogs,
                   ignored0>>

\* Lines 99-103.
UpdateIgnored ==
    /\ UNCHANGED <<scanVars, gkVars>>
    /\ pc = "ignored"
    /\ LET r == UpdateIgnoredPackages(ignored)
           h == IgnoredExcept(r.exc)
       IN  /\ ignored' = r.pref
           /\ written' = IF r.set THEN Append(written, r.value) ELSE written
           /\ saved' = IF r.save THEN saved + 1 ELSE saved
           /\ raised' = IF r.exc = None THEN raised ELSE raised \cup {"ignored"}
           /\ tracebacks' = IF h.tb THEN tracebacks \cup {"ignored"} ELSE tracebacks
           /\ escaped' = h.esc
           /\ pc' = Continue(h.esc, "state")
    /\ UNCHANGED <<_EXCEPTION, init_state, pc_event, events, _exception, views, dialogs, ignored0>>

\* Lines 105-122.  view is None (no active view) or a view.  With a view,
\* calling the unbound name init_state raises NameError; a bound init_state
\* (lib/state.py) returns or raises, having set the view's settings to values
\* this model does not constrain.
InitState ==
    /\ UNCHANGED <<scanVars, gkVars>>
    /\ pc = "state"
    /\ \E view \in {NoView} \cup Views, e \in {None} \cup Exceptions, s \in SettingsValues :
          /\ view = NoView => (e = None /\ s = CleanSettings)
          /\ (view # NoView /\ ~init_state) => (e = "Exception" /\ s = views[view])
          /\ LET h == StateExcept(e)
             IN  /\ _exception' = h._exception
                 /\ views' = IF view = NoView THEN views ELSE [views EXCEPT ![view] = s]
                 /\ raised' = IF e = None THEN raised ELSE raised \cup {"state"}
                 /\ tracebacks' = IF h.tb THEN tracebacks \cup {"state"} ELSE tracebacks
                 /\ escaped' = h.esc
                 /\ pc' = Continue(h.esc, "report")
    /\ UNCHANGED <<_EXCEPTION, init_state, pc_event, events, ignored, saved, written, dialogs,
                   ignored0>>

\* Lines 124-148.  k < TotalCalls: the host raises at settings call k + 1 of
\* _cleanup_views; k = TotalCalls: no host call raises.
Report ==
    /\ UNCHANGED <<scanVars, gkVars>>
    /\ pc = "report"
    /\ IF ShouldReport(_EXCEPTION, _exception)
       THEN \E k \in 0..TotalCalls :
               LET e == IF k < TotalCalls THEN "Exception" ELSE None
                   h == CleanupExcept(e)
               IN  /\ views' = CleanupViews(views, k)
                   /\ raised' = IF e = None THEN raised ELSE raised \cup {"cleanup"}
                   /\ tracebacks' = IF h.tb THEN tracebacks \cup {"cleanup"} ELSE tracebacks
                   /\ escaped' = h.esc
                   /\ dialogs' = IF h.esc = None
                                 THEN Append(dialogs, Message(_EXCEPTION, _exception, pc_event))
                                 ELSE dialogs
       ELSE UNCHANGED <<views, raised, tracebacks, escaped, dialogs>>
    /\ pc' = "done"
    /\ UNCHANGED <<_EXCEPTION, init_state, pc_event, events, _exception, ignored, saved, written,
                   ignored0>>

\* plugin_unloaded (lines 151-157).
PluginUnloaded ==
    /\ UNCHANGED <<scanVars, gkVars>>
    /\ pc = "done"
    /\ \E k \in 0..TotalCalls :
          LET e == IF k < TotalCalls THEN "Exception" ELSE None
              h == CleanupExcept(e)
          IN  /\ views' = CleanupViews(views, k)
              /\ raised' = IF e = None THEN raised ELSE raised \cup {"unload"}
              /\ tracebacks' = IF h.tb THEN tracebacks \cup {"unload"} ELSE tracebacks
    /\ pc' = "unloaded"
    /\ UNCHANGED <<_EXCEPTION, init_state, pc_event, events, _exception, ignored, saved,
                   written, escaped, dialogs, ignored0>>

\* A direct call of _update_ignored_packages (lines 51-64) on any stored
\* preference; it may be called again on what it left.
InitIgnored ==
    /\ IdleScan
    /\ IdleGk
    /\ pc = "prefs"
    /\ _EXCEPTION = None
    /\ init_state = TRUE
    /\ pc_event = None
    /\ events = [imp |-> Uncalled, install |-> Uncalled, post_upgrade |-> Uncalled]
    /\ _exception = None
    /\ ignored \in {NullPref} \cup UNION {[1..n -> PackageNames] : n \in 0..MaxIgnored}
    /\ saved = 0
    /\ written = <<>>
    /\ views = [v \in Views |-> CleanSettings]
    /\ raised = {}
    /\ tracebacks = {}
    /\ escaped = None
    /\ dialogs = <<>>
    /\ ignored0 = ignored

CallUpdateIgnored ==
    /\ UNCHANGED <<scanVars, gkVars>>
    /\ pc \in {"prefs", "updated"}
    /\ LET r == UpdateIgnoredPackages(ignored)
       IN  /\ ignored0' = ignored
           /\ ignored' = r.pref
           /\ written' = IF r.set THEN Append(written, r.value) ELSE written
           /\ saved' = IF r.save THEN saved + 1 ELSE saved
           /\ raised' = IF r.exc = None THEN raised ELSE raised \cup {"ignored"}
           /\ escaped' = r.exc
           /\ pc' = IF r.exc = None THEN "updated" ELSE "raised"
    /\ UNCHANGED <<_EXCEPTION, init_state, pc_event, events, _exception, views, tracebacks,
                   dialogs>>

(***************************************************************************)
(* scan_command_set (lib/ex/parser/scanner_command_set.py 23-35)           *)
(***************************************************************************)
\* Characters of a command line: a letter, the two separators, the space
\* and the line break.
Chars == {"a", ":", "=", " ", "\n"}
Separators == {":", "="}

\* Python's None where a str may stand (a regex group that did not take
\* part in the match): a one-element tuple, which is no string over Chars.
NoneStr == <<None>>

\* state.skip(' '): the position after the run of c that begins at pos.
RECURSIVE skip(_, _, _)
skip(src, pos, c) ==
    IF pos < Len(src) /\ src[pos + 1] = c THEN skip(src, pos + 1, c) ELSE pos

\* `$` at offset q of src: at the end, or just before a final line break.
DollarAt(src, q) == q = Len(src) \/ (q = Len(src) - 1 /\ src[Len(src)] = "\n")

\* `.` matches every character of src from offset i (exclusive) to j.
Dots(src, i, j) == \A k \in (i + 1)..j : src[k] # "\n"

\* The regular expression of line 32,
\*     (?P<option>.+?)(?:[:=](?P<value>.+?))?$
\* matched at offset pos as re.match does, with at least minOpt characters in
\* option and minVal in value.  The lazy option takes the fewest characters
\* for which the rest matches; the optional group is tried before it is
\* skipped, and its lazy value takes the fewest characters that reach `$`.
\* Result: matched, and the groups option and value (NoneStr if unmatched).
LazyMatch(src, pos, minOpt, minVal) ==
    LET n == Len(src)
        ValueEnds(L) ==
            { q \in (pos + L + 1 + minVal)..n :
                /\ src[pos + L + 1] \in Separators
                /\ Dots(src, pos + L + 1, q)
                /\ DollarAt(src, q) }
        OptionOk(L) ==
            /\ Dots(src, pos, pos + L)
            /\ \/ (pos + L < n /\ ValueEnds(L) # {})
               \/ DollarAt(src, pos + L)
        Lengths == { L \in minOpt..(n - pos) : OptionOk(L) }
    IN  IF Lengths = {}
        THEN [matched |-> FALSE, option |-> NoneStr, value |-> NoneStr, end |-> pos]
        ELSE LET L == CHOOSE x \in Lengths : \A y \in Lengths : x <= y
                 ends == IF pos + L < n THEN ValueEnds(L) ELSE {}
             IN  IF ends # {}
                 THEN LET q == CHOOSE x \in ends : \A y \in ends : x <= y
                      IN  [matched |-> TRUE,
                           option |-> SubSeq(src, pos + 1, pos + L),
                           value |-> SubSeq(src, pos + L + 2, q),
                           end |-> q]
                 ELSE [matched |-> TRUE,
                       option |-> SubSeq(src, pos + 1, pos + L),
                       value |-> NoneStr,
                       end |-> pos + L]

\* Variant: the value group is written .*? and may be empty.
expect_match_EmptyValue(src, pos) == LazyMatch(src, pos, 1, 0)

\* Variant: the option group is greedy, .+ , and swallows the separator:
\* the whole rest of the line is the option.
expect_match_GreedyOption(src, pos) ==
    IF pos < Len(src) /\ Dots(src, pos, Len(src))
    THEN [matched |-> TRUE, option |-> SubSeq(src, pos + 1, Len(src)),
          value |-> NoneStr, end |-> Len(src)]
    ELSE LazyMatch(src, pos, 1, 1)

\* state.expect_match(r'(?P<option>.+?)(?:[:=](?P<value>.+?))?$') of line 32.
expect_match(src, pos) == LazyMatch(src, pos, 1, 1)

\* Lines 24-27.
DefaultParams == [option |-> NoneStr, value |-> NoneStr]

\* m.groupdict(): every named group, unmatched ones as None.
groupdict(m) == [option |-> m.option, value |-> m.value]

\* dict.update (line 33).
update(params, d) ==
    [k \in DOMAIN params \cup DOMAIN d |-> IF k \in DOMAIN d THEN d[k] ELSE params[k]]

\* TokenSet(params) (lines 7-11) and TokenEof().
TokenSet(params) == [name |-> "TokenSet", target_command |-> "ex_set", params |-> params]
TokenEof == [name |-> "TokenEof"]

Sources == UNION {[1..n -> Chars] : n \in 0..MaxSource}

InitSet ==
    /\ IdlePlugin
    /\ IdleGk
    /\ scan_pc = "called"
    /\ source \in Sources
    /\ position = 0
    /\ start = 0
    /\ scanned = <<>>

\* Line 29: state.skip(' ').
ScanSkip ==
    /\ UNCHANGED <<pluginVars, gkVars>>
    /\ scan_pc = "called"
    /\ position' = skip(source, position, " ")
    /\ scan_pc' = "skipped"
    /\ UNCHANGED <<source, start, scanned>>

\* Line 30: state.ignore().
ScanIgnore ==
    /\ UNCHANGED <<pluginVars, gkVars>>
    /\ scan_pc = "skipped"
    /\ start' = position
    /\ scan_pc' = "ignored"
    /\ UNCHANGED <<source, position, scanned>>

\* Lines 32-35: expect_match raises ValueError when the pattern does not
\* match; otherwise it advances the position over the match and the
\* function returns (None, [TokenSet(params), TokenEof()]).
ScanMatch ==
    /\ UNCHANGED <<pluginVars, gkVars>>
    /\ scan_pc = "ignored"
    /\ LET m == expect_match(source, position)
       IN  IF m.matched
           THEN /\ position' = m.end
                /\ scanned' = <<None, <<TokenSet(update(DefaultParams, groupdict(m))), TokenEof>> >>
                /\ scan_pc' = "returned"
           ELSE /\ position' = position
                /\ scanned' = <<"ValueError">>
                /\ scan_pc' = "raised"
    /\ UNCHANGED <<source, start>>

(***************************************************************************)
(* gk and l_gk under word wrap (tests/functional/test_gk.py).  The motion  *)
(* itself (lib/cmds/vi_motions.py) and the host's layout are written from  *)
(* the specification and the test's fixtures.                              *)
(***************************************************************************)
\* setUp, line 26: settings().set('wrap_width', 4).
WrapWidth == 4

\* Characters a display line holds: with wrap_width 4 the fixture
\* '1234|56' has its cursor in the second column of the second display line
\* (line 30), so display lines hold three characters.
Cap == WrapWidth - 1

\* Offsets are counted from 0; buf[k] is the character at offset k - 1.
LineStart(buf, o) == CHOOSE s \in 0..o :
    /\ s = 0 \/ buf[s] = "\n"
    /\ \A t \in (s + 1)..o : buf[t] # "\n"

Min(a, b) == IF a < b THEN a ELSE b
Max(a, b) == IF a < b THEN b ELSE a

\* Variant: the cursor moves up one buffer line, as k does.
vi_gk_ByBufferLine(buf, pt) ==
    LET ls == LineStart(buf, pt)
        c  == pt - ls
    IN  IF ls = 0 THEN pt
        ELSE LET ps == LineStart(buf, ls - 1)
                 pn == (ls - 1) - ps
             IN  ps + Min(c, Max(pn - 1, 0))

\* gk in normal mode: the cursor at offset pt moves up one display line,
\* keeping its display column where the line above has that column, and
\* stays where it is on the first display line.
vi_gk(buf, pt) ==
    LET ls == LineStart(buf, pt)
        c  == pt - ls
    IN  IF c >= Cap THEN pt - Cap
        ELSE IF ls = 0 THEN pt
        ELSE LET ps      == LineStart(buf, ls - 1)
                 pn      == (ls - 1) - ps
                 lastRow == IF pn = 0 THEN 0 ELSE ((pn - 1) \div Cap) * Cap
                 rowLen  == pn - lastRow
             IN  ps + lastRow + Min(c, Max(rowLen - 1, 0))

\* l_gk in visual-line mode: the selection <<a, b>> of whole lines grows
\* upward by the buffer line above a and keeps b.
vi_l_gk(buf, a, b) == <<IF a = 0 THEN 0 ELSE LineStart(buf, a - 1), b>>

\* The fixtures of test_gk (line 29, 30) and test_l_gk (line 33, 34):
\* text, selection before, selection expected.
Fixtures ==
    { [mode |-> "normal",
       buffer |-> <<"1", "2", "3", "\n", "4", "5", "6", "\n", "x", "\n">>,
       sel |-> <<5, 5>>, expected |-> <<1, 1>>],
      [mode |-> "normal",
       buffer |-> <<"1", "2", "3", "4", "5", "6", "\n", "x", "\n">>,
       sel |-> <<4, 4>>, expected |-> <<1, 1>>],
      [mode |-> "visual_line",
       buffer |-> <<"1", "2", "3", "\n", "4", "5", "6", "\n", "x">>,
       sel |-> <<4, 8>>, expected |-> <<0, 8>>],
      [mode |-> "visual_line",
       buffer |-> <<"x", "\n", "1", "2", "3", "4", "5", "6", "\n",
                    "1", "2", "3", "4", "5", "6", "\n", "y">>,
       sel |-> <<9, 16>>, expected |-> <<2, 16>>] }

Buffers == UNION {[1..n -> {"a", "\n"}] : n \in 1..MaxBuffer}

\* Offsets a normal-mode cursor can be at: on a character that is not a
\* line break, or on an empty line.
CursorOffsets(buf) ==
    { o \in 0..Len(buf) :
        /\ o = Len(buf) => buf[o] = "\n"
        /\ (o < Len(buf) /\ buf[o + 1] = "\n") => (o = 0 \/ buf[o] = "\n") }

\* Visual-line selections: from the start of a line to the end of a line,
\* its line break included.
LineSelections(buf) ==
    { r \in (0..Len(buf)) \X (1..Len(buf)) :
        /\ r[1] < r[2]
        /\ r[1] = 0 \/ buf[r[1]] = "\n"
        /\ r[2] = Len(buf) \/ buf[r[2]] = "\n" }

InitGk ==
    /\ IdlePlugin
    /\ IdleScan
    /\ pressed = FALSE
    /\ \/ \E f \in Fixtures : mode = f.mode /\ buffer = f.buffer /\ sel = f.sel
       \/ /\ mode = "normal"
          /\ buffer \in Buffers
          /\ \E o \in CursorOffsets(buffer) : sel = <<o, o>>
       \/ /\ mode = "visual_line"
          /\ buffer \in Buffers
          /\ sel \in LineSelections(buffer)
    /\ before = [buffer |-> buffer, sel |-> sel]

\* Pressing gk in normal mode.
PressGk ==
    /\ UNCHANGED <<pluginVars, scanVars>>
    /\ mode = "normal"
    /\ before' = [buffer |-> buffer, sel |-> sel]
    /\ sel' = <<vi_gk(buffer, sel[1]), vi_gk(buffer, sel[1])>>
    /\ pressed' = TRUE
    /\ UNCHANGED <<mode, buffer>>

\* Pressing gk in visual-line mode.
PressLGk ==
    /\ UNCHANGED <<pluginVars, scanVars>>
    /\ mode = "visual_line"
    /\ before' = [buffer |-> buffer, sel |-> sel]
    /\ sel' = vi_l_gk(buffer, sel[1], sel[2])
    /\ pressed' = TRUE
    /\ UNCHANGED <<mode, buffer>>

(***************************************************************************)
(* Specifications                                                          *)
(***************************************************************************)
Next ==
    \/ Import
    \/ PcEventQuery
    \/ UpdateIgnored
    \/ InitState
    \/ Report
    \/ PluginUnloaded

Spec == Init /\ [][Next]_vars

NextIgnored == CallUpdateIgnored

SpecIgnored == InitIgnored /\ [][NextIgnored]_vars

NextSet ==
    \/ ScanSkip
    \/ ScanIgnore
    \/ ScanMatch

SpecSet == InitSet /\ [][NextSet]_vars

NextGk ==
    \/ PressGk
    \/ PressLGk

SpecGk == InitGk /\ [][NextGk]_vars

(***************************************************************************)
(* Properties of plugin_loaded                                             *)
(***************************************************************************)
Returned == pc \in {"done", "unloaded"}

\* The stages of C1: the module imports and the three initialization steps.
LoadStages == {"import", "pc_event", "ignored", "state"}

\* A dialog text that tells the user to restart Sublime Text.
RestartSentences ==
    { "Please restart Sublime Text.",
      "Please restart Sublime Text to finish the upgrade." }
InstructsRestart(m) == m[2] \in RestartSentences

RestartDialogShown == Len(dialogs) = 1 /\ InstructsRestart(dialogs[1])

\* C1 as stated: once plugin_loaded has returned, nothing has propagated out
\* of it, and if any exception was raised by the module imports, the Package
\* Control event query, _update_ignored_packages or state initialization,
\* a dialog instructing a restart was shown.
C1_EveryExceptionSurfaced ==
    Returned => /\ escaped = None
                /\ (raised \cap LoadStages # {}) => RestartDialogShown

\* C1 amended: every exception of those stages is caught (nothing propagates
\* out of plugin_loaded), and the restart dialog is shown exactly when the
\* module imports or state initialization raised; an exception of the Package
\* Control event query or of _update_ignored_packages alone shows no dialog.
C1_CaughtAndSurfacedForImportOrState ==
    /\ escaped = None
    /\ Returned =>
         /\ ("import" \in raised \/ "state" \in raised) => RestartDialogShown
         /\ ~("import" \in raised \/ "state" \in raised) => dialogs = <<>>

C1_Witness ==
    /\ pc = "done"
    /\ {"pc_event", "ignored", "state"} \subseteq raised
    /\ RestartDialogShown

\* C2: when plugin_loaded returns after an import-time exception was recorded
\* or state initialization raised, and no host call of _cleanup_views raised,
\* every view of every window has command_mode = False,
\* inverse_caret_state = False and no 'vintage' setting.
C2_ViewsCleanedAfterFailedLoad ==
    (pc = "done" /\ (_EXCEPTION # None \/ "state" \in raised) /\ "cleanup" \notin raised)
        => \A v \in Views : /\ views[v].command_mode = FALSE
                            /\ views[v].inverse_caret_state = FALSE
                            /\ views[v].vintage = FALSE

C2_Witness ==
    /\ pc = "done"
    /\ _EXCEPTION = None
    /\ "state" \in raised
    /\ "cleanup" \notin raised
    /\ RestartDialogShown
    /\ \A v \in Views : views[v] = CleanSettings

\* C7: a shown dialog carries one of the four messages; it has the 'Failed to
\* load some ... modules' wording iff _EXCEPTION or _exception is an
\* ImportError, and the '... to finish the upgrade' wording iff
\* events.post_upgrade('NeoVintageous') returned true (the import of
\* package_control and events.install not having raised).
FailedToLoad == "Failed to load some NeoVintageous modules. "
FailedToUpgrade == "Failed to load some modules trying to upgrade NeoVintageous. "
ErrorOnLoad == "An error occurred trying to load NeoVintageous. "
ErrorOnUpgrade == "An error occurred trying to upgrade NeoVintageous. "
FourMessages ==
    { <<FailedToLoad, "Please restart Sublime Text.">>,
      <<FailedToUpgrade, "Please restart Sublime Text to finish the upgrade.">>,
      <<ErrorOnLoad, "Please restart Sublime Text.">>,
      <<ErrorOnUpgrade, "Please restart Sublime Text to finish the upgrade.">> }

C7_MessageSelection ==
    \A i \in 1..Len(dialogs) :
        LET m == dialogs[i]
        IN  /\ m \in FourMessages
            /\ (m[1] \in {FailedToLoad, FailedToUpgrade})
                  <=> (_EXCEPTION = "ImportError" \/ _exception = "ImportError")
            /\ (m[2] = "Please restart Sublime Text to finish the upgrade.")
                  <=> (events.post_upgrade = "True")

C7_Witness ==
    /\ Len(dialogs) = 1
    /\ _EXCEPTION = "Exception"
    /\ _exception = "ImportError"
    /\ events.install = "True"
    /\ events.post_upgrade = "True"
    /\ dialogs[1][1] = FailedToUpgrade

(***************************************************************************)
(* Properties of _update_ignored_packages                                  *)
(***************************************************************************)
ConflictSet == {"Six", "Vintage", "Vintageous"}
Count(x, lst) == Cardinality({i \in 1..Len(lst) : lst[i] = x})
Occurs(x, lst) == Count(x, lst) > 0
IsSorted(lst) == \A i \in 1..(Len(lst) - 1) : StrRank[lst[i]] <= StrRank[lst[i + 1]]
MissingBefore == {x \in ConflictSet : ~Occurs(x, ignored0)}

\* C5: when _update_ignored_packages has completed, 'ignored_packages' holds
\* 'Six', 'Vintage' and 'Vintageous' and every entry it held before the call;
\* if one of the three was missing, the value given to settings.set is the
\* sorted concatenation of the previous list and the missing packages (it is
\* sorted and holds each name as often as that concatenation), it is the
\* stored preference, and the preferences were saved.
C5_IgnoredPackagesUpdated ==
    pc = "updated" =>
        /\ \A x \in ConflictSet : Occurs(x, ignored)
        /\ \A n \in PackageNames : Count(n, ignored) >= Count(n, ignored0)
        /\ MissingBefore # {} =>
              /\ written # <<>>
              /\ LET v == written[Len(written)]
                 IN  /\ IsSorted(v)
                     /\ \A n \in PackageNames :
                           Count(n, v) = Count(n, ignored0)
                                           + (IF n \in MissingBefore THEN 1 ELSE 0)
                     /\ ignored = v
              /\ saved = Len(written)
              /\ saved >= 1

C5_Witness ==
    /\ pc = "updated"
    /\ ignored0 = <<"Zen", "Vintage", "Emmet">>
    /\ ignored = <<"Emmet", "Six", "Vintage", "Vintageous", "Zen">>
    /\ saved = 1

(***************************************************************************)
(* Properties of scan_command_set                                          *)
(***************************************************************************)
\* The :set argument: the source after its leading spaces.
LeadingSpaces(src) ==
    CHOOSE k \in 0..Len(src) :
        /\ \A i \in 1..k : src[i] = " "
        /\ k = Len(src) \/ src[k + 1] # " "
Argument == SubSeq(source, LeadingSpaces(source) + 1, Len(source))
OneLine(str) == \A i \in 1..Len(str) : str[i] # "\n"
IsStr(x) == x # NoneStr /\ \A i \in 1..Len(x) : x[i] \in Chars
ScanEnded == scan_pc \in {"returned", "raised"}

\* C3: for an argument (one line, leading spaces skipped) of the form
\* <option><sep><value> with sep ':' or '=', a non-empty option holding no
\* separator and a non-empty value, scan_command_set returns
\* (None, [TokenSet, TokenEof]); the token's option is <option> and its
\* value is everything after the first separator.
C3_OptionAndValueSplitAtFirstSeparator ==
    ScanEnded =>
        \A i \in 2..(Len(Argument) - 1) :
            ( /\ OneLine(Argument)
              /\ Argument[i] \in Separators
              /\ \A j \in 1..(i - 1) : Argument[j] \notin Separators )
            => /\ scan_pc = "returned"
               /\ scanned[1] = None
               /\ Len(scanned[2]) = 2
               /\ scanned[2][1].name = "TokenSet"
               /\ scanned[2][2] = TokenEof
               /\ scanned[2][1].params.option = SubSeq(Argument, 1, i - 1)
               /\ scanned[2][1].params.value = SubSeq(Argument, i + 1, Len(Argument))

C3_Witness ==
    /\ scan_pc = "returned"
    /\ source = <<" ", "a", "=", ":">>
    /\ scanned[2][1].params.option = <<"a">>
    /\ scanned[2][1].params.value = <<":">>

\* C4: every TokenSet produced carries the parameters 'option' and 'value';
\* option is a non-empty string, value is None whenever the argument holds no
\* ':' or '=', and a value that is not None is a non-empty string.
C4_TokenSetCarriesOptionAndValue ==
    scan_pc = "returned" =>
        \A t \in 1..Len(scanned[2]) :
            scanned[2][t].name = "TokenSet" =>
                LET params == scanned[2][t].params
                IN  /\ {"option", "value"} \subseteq DOMAIN params
                    /\ IsStr(params.option)
                    /\ Len(params.option) >= 1
                    /\ (\A i \in 1..Len(Argument) : Argument[i] \notin Separators)
                          => params.value = NoneStr
                    /\ params.value # NoneStr
                          => (IsStr(params.value) /\ Len(params.value) >= 1)

C4_Witness ==
    /\ scan_pc = "returned"
    /\ source = <<"a", "a", " ", "a">>
    /\ scanned[2][1].params.option = source
    /\ scanned[2][1].params.value = NoneStr

(***************************************************************************)
(* Properties of gk                                                        *)
(***************************************************************************)
\* Offset k begins a display line: it follows a line break, or word wrap
\* breaks the buffer line before the character at k.
IsRowStart(buf, k) ==
    \/ buf[k] = "\n"
    \/ /\ k < Len(buf)
       /\ buf[k + 1] # "\n"
       /\ (k - LineStart(buf, k)) % Cap = 0
DisplayRow(buf, o) == Cardinality({k \in 1..o : IsRowStart(buf, k)})
DisplayCol(buf, o) ==
    o - (CHOOSE s \in 0..o : /\ s = 0 \/ IsRowStart(buf, s)
                             /\ \A t \in (s + 1)..o : ~IsRowStart(buf, t))

====
